---- MODULE Spec2Model ----
(***************************************************************************)
(* A model of data_viz/corr_graph/src/gen_gdf_file.py: main() loads a      *)
(* delimited file into an H2O frame, encodes the categorical columns into  *)
(* 1/-1 indicator columns, correlates the numeric columns and write_gdf()  *)
(* writes the node and edge sections of a .gdf file.                       *)
(*                                                                         *)
(* Strings are sequences of one-character strings, so that re.sub and the  *)
(* name-collision loop are computed character by character.  A cell of a   *)
(* column is a sequence: <<>> is a missing value (NA_STRING_LIST = [''],   *)
(* so the empty string is the missing value), <<n>> a number, and a        *)
(* non-empty sequence of characters a string.  Correlations are integers   *)
(* in hundredths (CORR_THRESHOLD = 0.01 is 1), NaN is <<>>.                *)
(***************************************************************************)
EXTENDS Integers, Sequences, FiniteSets

VARIABLES
    pc,             \* position of the run in main() / write_gdf()
    in_main,        \* TRUE when write_gdf was called from main()
    backend,        \* the H2O cluster: "off", "running", "shutdown"
    ne_semantics,   \* how the backend compares a string column with 1.0
    in_file,        \* the parsed content of IN_FILE_PATH_STRING
    items_reversed, \* the order in which the dict raw_frame.types is iterated
    raw_frame,      \* main: raw_frame, a sequence of columns
    new_name_list,  \* main: new_name_list
    indicator_of,   \* history: the (column, level) each created name encodes
    encode_list,    \* main: encode_list
    enc_i,          \* index in encode_list of the column being encoded
    level_j,        \* main: j, the index of the level being encoded
    input_list,     \* main: input_list
    cor_input,      \* history: the frame the correlation was computed on
    corr_frame_df,  \* write_gdf: corr_frame_df, [columns, iat]
    corr_threshold, \* write_gdf: corr_threshold
    out,            \* the lines written to out_file_path_string by this run
    out_state,      \* "untouched", "open" or "closed"
    w_i,            \* write_gdf: i of the loop being run
    w_j             \* write_gdf: j of the edge loop

vars == <<pc, in_main, backend, ne_semantics, in_file, items_reversed, raw_frame,
          new_name_list, indicator_of, encode_list, enc_i, level_j,
          input_list, cor_input, corr_frame_df, corr_threshold, out,
          out_state, w_i, w_j>>

---------------------------------------------------------------------------
(* Constants of the script (lines 65-75).                                  *)

REPLACE_CHAR == "_"

NUM_LEVELS_THRESHOLD == 25

\* 0.01, in hundredths
CORR_THRESHOLD == 1

\* 'id'
DROP_LIST == << <<"i", "d">> >>

---------------------------------------------------------------------------
(* Cells and numbers.                                                      *)

NA == <<>>

Num(n) == <<n>>

IsNA(cell) == cell = NA

Abs(n) == IF n < 0 THEN -n ELSE n

SeqToSet(s) == {s[k] : k \in DOMAIN s}

---------------------------------------------------------------------------
(* Strings.                                                                *)

\* The characters the inputs are built from, in ASCII order.
Alphabet == <<"'", ",", "-", ".", "0", "1", "_", "a", "b", "c", "d", "i", "t", "u", "x">>

CharRank(c) == CHOOSE k \in DOMAIN Alphabet : Alphabet[k] = c

RECURSIVE StrLess(_, _)
StrLess(s, t) ==
    IF s = <<>> THEN t # <<>>
    ELSE IF t = <<>> THEN FALSE
    ELSE IF s[1] = t[1] THEN StrLess(Tail(s), Tail(t))
    ELSE CharRank(s[1]) < CharRank(t[1])

RECURSIVE SortStrs(_)
SortStrs(S) ==
    IF S = {} THEN <<>>
    ELSE LET m == CHOOSE x \in S : \A y \in S \ {x} : StrLess(x, y)
         IN  <<m>> \o SortStrs(S \ {m})

\* search_str: the characters of the class [\/\\;,\s\.\/<>&\!:\"\)\(\*\+\?\|=#@]
SearchChars == {"/", "\\", ";", ",", " ", "\t", "\n", "\r", "\f", ".", "<",
                ">", "&", "!", ":", "\"", ")", "(", "*", "+", "?", "|", "=",
                "#", "@"}

\* re.sub(pattern, REPLACE_CHAR, s) for a pattern matching one character of chars
ReSub(chars, s) == [k \in DOMAIN s |-> IF s[k] \in chars THEN REPLACE_CHAR ELSE s[k]]

\* the two substitutions of lines 154-155 and 166-167
Sanitize(s) == ReSub({"'"}, ReSub(SearchChars, s))

\* REPLACE_CHAR.join([name_prefix, level_suffix])
JoinName(name_prefix, level_suffix) == name_prefix \o <<REPLACE_CHAR>> \o level_suffix

\* Uniquify with the loop run once at most (if for while)
UniquifyOnce(new_name, names) ==
    IF new_name \in SeqToSet(names) THEN new_name \o <<REPLACE_CHAR>> ELSE new_name

\* while(new_name in new_name_list): new_name += REPLACE_CHAR
RECURSIVE Uniquify(_, _)
Uniquify(new_name, names) ==
    IF new_name \in SeqToSet(names)
    THEN Uniquify(new_name \o <<REPLACE_CHAR>>, names)
    ELSE new_name

\* The number a string cell parses to (asnumeric, and a numeric comparison):
\* an optional sign, a digit and an optional ".0"; anything else is no number.
Digits == [c \in {"0", "1"} |-> IF c = "0" THEN 0 ELSE 1]

ParseUnsigned(s) ==
    IF /\ Len(s) \in {1, 3}
       /\ s[1] \in DOMAIN Digits
       /\ Len(s) = 3 => (s[2] = "." /\ s[3] = "0")
    THEN Num(Digits[s[1]])
    ELSE NA

ParseNum(s) ==
    IF s # <<>> /\ s[1] = "-"
    THEN LET u == ParseUnsigned(Tail(s)) IN IF IsNA(u) THEN NA ELSE Num(-u[1])
    ELSE ParseUnsigned(s)

---------------------------------------------------------------------------
(* H2O frames: a frame is a sequence of columns, a column is a record      *)
(* [name, type, domain, data]; domain is the list of levels of an enum     *)
(* column (categories()), data the cells of its rows.                      *)

Column(name, type, domain, data) ==
    [name |-> name, type |-> type, domain |-> domain, data |-> data]

FrameNames(fr) == [k \in DOMAIN fr |-> fr[k].name]

\* raw_frame[name]
Col(fr, name) == fr[CHOOSE k \in DOMAIN fr : fr[k].name = name]

\* raw_frame.drop(names)
Drop(fr, names) == SelectSeq(fr, LAMBDA c : c.name \notin names)

\* raw_frame[input_list]
Select(fr, names) == [k \in DOMAIN names |-> Col(fr, names[k])]

\* raw_frame[name].categories()
categories(col) == col.domain

\* the levels import_file gives an enum column: the distinct values, sorted
ParsedDomain(data) == SortStrs({data[r] : r \in DOMAIN data} \ {NA})

Reverse(s) == [k \in DOMAIN s |-> s[Len(s) + 1 - k]]

\* raw_frame.types.items(): the script is run by python2, where the order of
\* a dict is not the order of the columns; the order of the columns and its
\* reverse stand for the orders the interpreter may choose
TypesItems(fr, reversed) == IF reversed THEN Reverse(fr) ELSE fr

\* names of all potential vars to be encoded
TryNameList(fr, reversed) ==
    FrameNames(SelectSeq(TypesItems(fr, reversed), LAMBDA c :
        c.type \notin {"unknown", "uuid", "time", "real", "int"}))

\* Encodable with the threshold taken as inclusive (<= for <)
EncodableInclusive(col) == Len(categories(col)) <= NUM_LEVELS_THRESHOLD

\* len(raw_frame[name].categories()) < NUM_LEVELS_THRESHOLD
Encodable(col) == Len(categories(col)) < NUM_LEVELS_THRESHOLD

EncodeList(fr, reversed) ==
    SelectSeq(TryNameList(fr, reversed), LAMBDA name : Encodable(Col(fr, name)))

\* [name for name, type_ in raw_frame.types.items() if type_ in ['real', 'int']]
InputList(fr, reversed) ==
    FrameNames(SelectSeq(TypesItems(fr, reversed), LAMBDA c : c.type \in {"real", "int"}))

---------------------------------------------------------------------------
(* The indicator column of one level (lines 173-177).                      *)

\* '1.0' and '-1.0'
PosStr == <<"1", ".", "0">>

NegStr == <<"-", "1", ".", "0">>

NeSemantics == {"numeric", "mismatch", "error"}

\* new_frame[new_name] != 1.0 on a cell of the string column: the script
\* compares a string column with a float, and what the backend answers is
\* not fixed by the script: it compares the number the string parses to
\* ("numeric"), or takes a string to differ from every number ("mismatch").
NotOne(cell, semantics) ==
    IF semantics = "numeric" THEN ParseNum(cell) # Num(1) ELSE TRUE

\* new_frame[new_frame[new_name] == level] = '1.0'
MarkPositive(data, level) ==
    [r \in DOMAIN data |-> IF data[r] = level THEN PosStr ELSE data[r]]

\* new_frame[new_frame[new_name] != 1.0] = '-1.0'
MarkNegative(data, semantics) ==
    [r \in DOMAIN data |-> IF NotOne(data[r], semantics) THEN NegStr ELSE data[r]]

\* new_frame.asnumeric()
AsNumeric(data) == [r \in DOMAIN data |-> ParseNum(data[r])]

Indicator(col, new_name, level, semantics) ==
    Column(new_name, "real", <<>>,
           AsNumeric(MarkNegative(MarkPositive(col.data, level), semantics)))

\* SkipsLevel for columns of fewer than two levels only (< for <=)
SkipsLevelStrict(level_list, j) == Len(level_list) < 2 /\ j > 0

\* if len(level_list) <= 2 and j > 0: continue
SkipsLevel(level_list, j) == Len(level_list) <= 2 /\ j > 0

\* the candidate name of lines 154-168
CandidateName(name, level) == JoinName(Sanitize(name), Sanitize(level))

---------------------------------------------------------------------------
(* Imputation and correlation (lines 191-194), computed by the backend.    *)

RECURSIVE InsertNum(_, _)
InsertNum(v, sorted) ==
    IF sorted = <<>> \/ v <= Head(sorted) THEN <<v>> \o sorted
    ELSE <<Head(sorted)>> \o InsertNum(v, Tail(sorted))

RECURSIVE SortNums(_)
SortNums(vals) ==
    IF vals = <<>> THEN <<>> ELSE InsertNum(Head(vals), SortNums(Tail(vals)))

\* the values of the cells that are not missing
Present(data) == LET kept == SelectSeq(data, LAMBDA cell : ~IsNA(cell))
                 IN  [k \in DOMAIN kept |-> kept[k][1]]

HasNA(data) == \E r \in DOMAIN data : IsNA(data[r])

\* the median of a non-empty list; two middle values are averaged
Median(vals) ==
    LET s == SortNums(vals)
        n == Len(s)
    IN  IF n % 2 = 1 THEN s[(n + 1) \div 2]
        ELSE (s[n \div 2] + s[(n \div 2) + 1]) \div 2

\* impute(method='median') on one column; a column without any value has
\* no median and is left as it is
ImputeColumn(col) ==
    IF Present(col.data) = <<>> THEN col
    ELSE [col EXCEPT !.data =
            [r \in DOMAIN col.data |->
                IF IsNA(col.data[r]) THEN Num(Median(Present(col.data)))
                ELSE col.data[r]]]

\* frame[names].impute(method='median') acting on the columns of frame
ImputeMedian(fr, names) ==
    [k \in DOMAIN fr |->
        IF fr[k].name \in SeqToSet(names) THEN ImputeColumn(fr[k]) ELSE fr[k]]

RECURSIVE SumProd(_, _, _)
SumProd(x, y, n) ==
    IF n = 0 THEN 0 ELSE x[n][1] * y[n][1] + SumProd(x, y, n - 1)

Ones(data) == [r \in DOMAIN data |-> Num(1)]

ISqrt(k) == CHOOSE h \in 0..100 : h * h <= k /\ (h + 1) * (h + 1) > k

\* The Pearson coefficient of two columns in hundredths, truncated toward
\* zero; NaN when a column holds a missing value or has no variance.
Pearson(x, y) ==
    IF HasNA(x) \/ HasNA(y) THEN NA
    ELSE
    LET n  == Len(x)
        c  == n * SumProd(x, y, n) - SumProd(x, Ones(x), n) * SumProd(y, Ones(y), n)
        vx == n * SumProd(x, x, n) - SumProd(x, Ones(x), n) * SumProd(x, Ones(x), n)
        vy == n * SumProd(y, y, n) - SumProd(y, Ones(y), n) * SumProd(y, Ones(y), n)
        v  == vx * vy
    IN  IF v = 0 THEN NA
        ELSE LET q1 == (c * c * 100) \div v
                 r1 == (c * c * 100) % v
                 q2 == (r1 * 100) \div v
                 h  == ISqrt(q1 * 100 + q2)
             IN  Num(IF c < 0 THEN -h ELSE h)

\* frame.cor().as_data_frame(): the names of the columns and the matrix
Cor(fr) ==
    [columns |-> FrameNames(fr),
     iat     |-> [i \in 0..(Len(fr) - 1), j \in 0..(Len(fr) - 1) |->
                     Pearson(fr[i + 1].data, fr[j + 1].data)]]

---------------------------------------------------------------------------
(* write_gdf (lines 84-117).  A line is a record of its kind and of the    *)
(* fields that the script joins with ','.                                  *)

NodeDef == [kind |-> "nodedef", f |-> <<"nodedef>name VARCHAR,label VARCHAR">>]

EdgeDef == [kind |-> "edgedef", f |-> <<"edgedef>node1 VARCHAR,node2 VARCHAR, weight DOUBLE">>]

\* NodeLine with ids counted from one
NodeLineOneBased(i, name) == [kind |-> "node", f |-> <<i + 1, name>>]

\* str(i) + ',' + corr_frame_df.columns[i]
NodeLine(i, name) == [kind |-> "node", f |-> <<i, name>>]

\* str(i) + ',' + str(j) + ',' + str(ij_)
EdgeLine(i, j, ij_) == [kind |-> "edge", f |-> <<i, j, ij_>>]

\* corr_frame_df.shape[0] and shape[1]
Shape0(df) == Len(df.columns)

Shape1(df) == Len(df.columns)

\* ij_ > corr_threshold on floats: a comparison with NaN is false
Greater(ij_, threshold) == ~IsNA(ij_) /\ ij_[1] > threshold

\* WritesEdge with the diagonal let through (i >= j for i > j)
WritesEdgeDiagonal(df, threshold, i, j) == i >= j /\ Greater(df.iat[i, j], threshold)

\* lines 111-113: the iteration (i, j) of the edge loop writes a line
WritesEdge(df, threshold, i, j) == i > j /\ Greater(df.iat[i, j], threshold)

\* the place of iteration (i, j) in the order of the two loops
LoopPos(df, i, j) == i * Shape1(df) + j

\* the iterations from (i, j) on that write a line
Pending(df, threshold, i, j) ==
    {p \in (0..(Shape0(df) - 1)) \X (0..(Shape1(df) - 1)) :
        /\ LoopPos(df, p[1], p[2]) >= LoopPos(df, i, j)
        /\ WritesEdge(df, threshold, p[1], p[2])}

\* the first of them
NextEdge(df, threshold, i, j) ==
    LET pend == Pending(df, threshold, i, j)
    IN  CHOOSE p \in pend :
            \A q \in pend : LoopPos(df, p[1], p[2]) <= LoopPos(df, q[1], q[2])

---------------------------------------------------------------------------
(* The input files.  COL_TYPE_DICT is empty (line 69), so import_file      *)
(* infers the type of every column: a column is an enum column only when   *)
(* one of its values is no number, and a column without any value is of    *)
(* type unknown.                                                           *)

NumRows == 3

EnumLabels == {PosStr, <<"b", ",", "c">>, <<"b", "_", "c">>}

IdCol(n) == Column(<<"i", "d">>, "int", <<>>, [r \in 1..n |-> Num(r)])

TimeCol(n) == Column(<<"t">>, "time", <<>>, [r \in 1..n |-> Num(r)])

XCol(data) == Column(<<"x">>, "real", <<>>, data)

EnumCol(name, data) == Column(name, "enum", ParsedDomain(data), data)

XNoNA(n) == [r \in 1..n |-> Num(2 * (r % 2))]

XSomeNA(n) == [r \in 1..n |-> IF r = 1 THEN NA ELSE Num(2 * (r % 2))]

UnknownCol(n) == Column(<<"u">>, "unknown", <<>>, [r \in 1..n |-> NA])

XParts == {<<>>, <<XCol(XNoNA(NumRows))>>, <<XCol(XSomeNA(NumRows))>>}

\* the data of an enum column: labels and missing values, one label at least
\* being no number
EnumData(n) ==
    {d \in [1..n -> EnumLabels \cup {NA}] :
        \E r \in 1..n : ~IsNA(d[r]) /\ IsNA(ParseNum(d[r]))}

\* the data of a second, binary enum column, named 'a,b'
SecondData == {[r \in 1..NumRows |-> IF r = 2 THEN <<"d">> ELSE <<"c">>]}

SmallFiles ==
    {<<IdCol(NumRows)>> \o xs
        \o <<EnumCol(<<"a">>, d), TimeCol(NumRows), UnknownCol(NumRows)>> :
        xs \in XParts, d \in EnumData(NumRows)}
    \cup
    {<<IdCol(NumRows), XCol(XNoNA(NumRows)), EnumCol(<<"a">>, d),
       EnumCol(<<"a", ",", "b">>, e), TimeCol(NumRows), UnknownCol(NumRows)>> :
        d \in EnumData(NumRows), e \in SecondData}

\* a file with a column of NUM_LEVELS_THRESHOLD - 1 levels and a column of
\* NUM_LEVELS_THRESHOLD levels; the k-th label is k times the letter a
BigLabel(k) == [i \in 1..k |-> "a"]

BigData(levels, n) == [r \in 1..n |-> BigLabel(((r - 1) % levels) + 1)]

BigFiles ==
    {<<IdCol(NUM_LEVELS_THRESHOLD), XCol(XNoNA(NUM_LEVELS_THRESHOLD)),
       EnumCol(<<"a">>, BigData(NUM_LEVELS_THRESHOLD - 1, NUM_LEVELS_THRESHOLD)),
       EnumCol(<<"b">>, BigData(NUM_LEVELS_THRESHOLD, NUM_LEVELS_THRESHOLD))>>}

InFiles == SmallFiles \cup BigFiles

\* The matrices and thresholds write_gdf is called with on its own.
MaxN == 3

CorrCells == {NA, Num(-50), Num(-1), Num(2)}

Thresholds == {-2, CORR_THRESHOLD, 2}

MatrixNames == <<<<"x">>, <<"a", "_", "b">>, <<"a", "_", "c">>, <<"a", "_", "d">>,
                 <<"b", "_", "a">>, <<"b", "_", "b">>>>

LowerPairs(n) == {p \in (0..(n - 1)) \X (0..(n - 1)) : p[1] > p[2]}

Matrices ==
    UNION {{[columns |-> SubSeq(MatrixNames, 1, n),
             iat     |-> [i \in 0..(n - 1), j \in 0..(n - 1) |->
                             IF i = j THEN Num(100)
                             ELSE IF i > j THEN low[<<i, j>>] ELSE low[<<j, i>>]]] :
            low \in [LowerPairs(n) -> CorrCells]} : n \in 0..MaxN}

NoFrame == [columns |-> <<>>, iat |-> <<>>]

---------------------------------------------------------------------------
(* The run.                                                                *)

encVars == <<new_name_list, indicator_of, encode_list, enc_i, level_j>>

outVars == <<corr_frame_df, corr_threshold, out, out_state, w_i, w_j>>

envVars == <<in_main, in_file, items_reversed>>

Init ==
    /\ pc = "init"
    /\ in_main = TRUE
    /\ backend = "off"
    /\ ne_semantics = "unset"
    /\ in_file \in InFiles
    /\ items_reversed \in BOOLEAN
    /\ raw_frame = <<>>
    /\ new_name_list = <<>>
    /\ indicator_of = <<>>
    /\ encode_list = <<>>
    /\ enc_i = 0
    /\ level_j = 0
    /\ input_list = <<>>
    /\ cor_input = <<>>
    /\ corr_frame_df = NoFrame
    /\ corr_threshold = CORR_THRESHOLD
    /\ out = <<>>
    /\ out_state = "untouched"
    /\ w_i = 0
    /\ w_j = 0

\* write_gdf called on its own with any matrix and any threshold
InitWrite ==
    /\ pc = "w_open"
    /\ in_main = FALSE
    /\ backend = "off"
    /\ ne_semantics = "unset"
    /\ in_file = <<>>
    /\ items_reversed = FALSE
    /\ raw_frame = <<>>
    /\ new_name_list = <<>>
    /\ indicator_of = <<>>
    /\ encode_list = <<>>
    /\ enc_i = 0
    /\ level_j = 0
    /\ input_list = <<>>
    /\ cor_input = <<>>
    /\ corr_frame_df \in Matrices
    /\ corr_threshold \in Thresholds
    /\ out = <<>>
    /\ out_state = "untouched"
    /\ w_i = 0
    /\ w_j = 0

\* line 124: h2o.init()
H2oInit ==
    /\ pc = "init"
    /\ backend' = "running"
    /\ ne_semantics' \in NeSemantics
    /\ pc' = "import"
    /\ UNCHANGED <<envVars, raw_frame, encVars, input_list, cor_input, outVars>>

\* lines 125-129: h2o.import_file()
ImportFile ==
    /\ pc = "import"
    /\ raw_frame' = in_file
    /\ pc' = "drop"
    /\ UNCHANGED <<envVars, backend, ne_semantics, encVars, input_list, cor_input, outVars>>

\* line 130: raw_frame.drop(DROP_LIST)
DropColumns ==
    /\ pc = "drop"
    /\ raw_frame' = Drop(raw_frame, SeqToSet(DROP_LIST))
    /\ pc' = "lists"
    /\ UNCHANGED <<envVars, backend, ne_semantics, encVars, input_list, cor_input, outVars>>

\* lines 137-147: new_name_list, try_name_list, encode_list
InitLoopVars ==
    /\ pc = "lists"
    /\ new_name_list' = <<>>
    /\ encode_list' = EncodeList(raw_frame, items_reversed)
    /\ enc_i' = 1
    /\ pc' = "encode"
    /\ UNCHANGED <<envVars, backend, ne_semantics, raw_frame, indicator_of, level_j,
                   input_list, cor_input, outVars>>

\* lines 152-157: the next name of encode_list
EncodeName ==
    /\ pc = "encode"
    /\ enc_i <= Len(encode_list)
    /\ level_j' = 0
    /\ pc' = "level"
    /\ UNCHANGED <<envVars, backend, ne_semantics, raw_frame, new_name_list,
                   indicator_of, encode_list, enc_i, input_list, cor_input, outVars>>

name == encode_list[enc_i]

level_list == categories(Col(raw_frame, name))

level == level_list[level_j + 1]

\* lines 162-163: the second level of a binary column is skipped
SkipLevel ==
    /\ pc = "level"
    /\ level_j < Len(level_list)
    /\ SkipsLevel(level_list, level_j)
    /\ level_j' = level_j + 1
    /\ UNCHANGED <<pc, envVars, backend, ne_semantics, raw_frame, new_name_list,
                   indicator_of, encode_list, enc_i, input_list, cor_input, outVars>>

\* lines 166-178: one indicator column is created and bound to the frame
EncodeLevel ==
    /\ pc = "level"
    /\ level_j < Len(level_list)
    /\ ~SkipsLevel(level_list, level_j)
    /\ ne_semantics # "error"
    /\ LET new_name == Uniquify(CandidateName(name, level), new_name_list)
       IN  /\ new_name_list' = Append(new_name_list, new_name)
           /\ indicator_of' = Append(indicator_of, [name |-> name, level |-> level])
           /\ raw_frame' = Append(raw_frame,
                  Indicator(Col(raw_frame, name), new_name, level, ne_semantics))
    /\ level_j' = level_j + 1
    /\ UNCHANGED <<pc, envVars, backend, ne_semantics, encode_list, enc_i,
                   input_list, cor_input, outVars>>

\* line 176 on a backend that refuses to compare a string column with a number
EncodeLevelRaises ==
    /\ pc = "level"
    /\ level_j < Len(level_list)
    /\ ~SkipsLevel(level_list, level_j)
    /\ ne_semantics = "error"
    /\ pc' = "failed"
    /\ UNCHANGED <<envVars, backend, ne_semantics, raw_frame, encVars, input_list,
                   cor_input, outVars>>

\* lines 181-183: drop original categorical column
DropOriginal ==
    /\ pc = "level"
    /\ level_j = Len(level_list)
    /\ raw_frame' = Drop(raw_frame, {name})
    /\ enc_i' = enc_i + 1
    /\ pc' = "encode"
    /\ UNCHANGED <<envVars, backend, ne_semantics, new_name_list, indicator_of,
                   encode_list, level_j, input_list, cor_input, outVars>>

\* lines 188-189: the loop is over, input_list
BuildInputList ==
    /\ pc = "encode"
    /\ enc_i > Len(encode_list)
    /\ input_list' = InputList(raw_frame, items_reversed)
    /\ pc' = "impute"
    /\ UNCHANGED <<envVars, backend, ne_semantics, raw_frame, encVars, cor_input, outVars>>

\* line 191: raw_frame[input_list].impute(method='median') imputes the
\* selection raw_frame[input_list] in place and its result is dropped.
\* Whether the selection shares its columns with raw_frame is the backend's
\* choice: here it does ...
ImputeShared ==
    /\ pc = "impute"
    /\ raw_frame' = ImputeMedian(raw_frame, input_list)
    /\ pc' = "cor"
    /\ UNCHANGED <<envVars, backend, ne_semantics, encVars, input_list, cor_input, outVars>>

\* ... and here the selection is a copy and raw_frame stays as it was
ImputeCopy ==
    /\ pc = "impute"
    /\ pc' = "cor"
    /\ UNCHANGED <<envVars, backend, ne_semantics, raw_frame, encVars, input_list,
                   cor_input, outVars>>

\* lines 194-200: raw_frame[input_list].cor(), as_data_frame(), write_gdf()
Correlate ==
    /\ pc = "cor"
    /\ cor_input' = Select(raw_frame, input_list)
    /\ corr_frame_df' = Cor(Select(raw_frame, input_list))
    /\ corr_threshold' = CORR_THRESHOLD
    /\ pc' = "w_open"
    /\ UNCHANGED <<envVars, backend, ne_semantics, raw_frame, encVars, input_list,
                   out, out_state, w_i, w_j>>

\* an exception in h2o.init, import_file or cor ends main
MainRaises ==
    /\ pc \in {"init", "import", "cor"}
    /\ pc' = "failed"
    /\ UNCHANGED <<envVars, backend, ne_semantics, raw_frame, encVars, input_list,
                   cor_input, outVars>>

mainVars == <<envVars, backend, ne_semantics, raw_frame, encVars, input_list, cor_input>>

\* line 100: open(out_file_path_string, 'w+') creates or truncates the file
OpenFile ==
    /\ pc = "w_open"
    /\ out' = <<>>
    /\ out_state' = "open"
    /\ pc' = "w_nodedef"
    /\ UNCHANGED <<mainVars, corr_frame_df, corr_threshold, w_i, w_j>>

\* line 100: open raises, nothing is created
OpenRaises ==
    /\ pc = "w_open"
    /\ pc' = "failed"
    /\ UNCHANGED <<mainVars, outVars>>

\* line 103
WriteNodeDef ==
    /\ pc = "w_nodedef"
    /\ out' = Append(out, NodeDef)
    /\ w_i' = 0
    /\ pc' = "w_nodes"
    /\ UNCHANGED <<mainVars, corr_frame_df, corr_threshold, out_state, w_j>>

\* lines 104-105
WriteNode ==
    /\ pc = "w_nodes"
    /\ w_i < Shape0(corr_frame_df)
    /\ out' = Append(out, NodeLine(w_i, corr_frame_df.columns[w_i + 1]))
    /\ w_i' = w_i + 1
    /\ UNCHANGED <<pc, mainVars, corr_frame_df, corr_threshold, out_state, w_j>>

\* line 108
WriteEdgeDef ==
    /\ pc = "w_nodes"
    /\ w_i = Shape0(corr_frame_df)
    /\ out' = Append(out, EdgeDef)
    /\ w_i' = 0
    /\ w_j' = 0
    /\ pc' = "w_edges"
    /\ UNCHANGED <<mainVars, corr_frame_df, corr_threshold, out_state>>

\* lines 109-115: the loops run to the next iteration that writes a line
WriteEdge ==
    /\ pc = "w_edges"
    /\ Pending(corr_frame_df, corr_threshold, w_i, w_j) # {}
    /\ LET p == NextEdge(corr_frame_df, corr_threshold, w_i, w_j)
       IN  /\ out' = Append(out, EdgeLine(p[1], p[2], corr_frame_df.iat[p[1], p[2]]))
           /\ w_i' = p[1]
           /\ w_j' = p[2] + 1
    /\ UNCHANGED <<pc, mainVars, corr_frame_df, corr_threshold, out_state>>

\* lines 109-117: the loops end, the with block closes the file
CloseFile ==
    /\ pc = "w_edges"
    /\ Pending(corr_frame_df, corr_threshold, w_i, w_j) = {}
    /\ out_state' = "closed"
    /\ w_i' = Shape0(corr_frame_df)
    /\ w_j' = 0
    /\ pc' = IF in_main THEN "shutdown" ELSE "done"
    /\ UNCHANGED <<mainVars, corr_frame_df, corr_threshold, out>>

\* a write of lines 103-115 raises: the with block closes the file and the
\* exception leaves write_gdf
WriteRaises ==
    /\ \/ pc \in {"w_nodedef", "w_nodes"}
       \/ pc = "w_edges" /\ Pending(corr_frame_df, corr_threshold, w_i, w_j) # {}
    /\ out_state' = "closed"
    /\ pc' = "failed"
    /\ UNCHANGED <<mainVars, corr_frame_df, corr_threshold, out, w_i, w_j>>

\* line 203: h2o.cluster().shutdown()
Shutdown ==
    /\ pc = "shutdown"
    /\ backend' = "shutdown"
    /\ pc' = "done"
    /\ UNCHANGED <<envVars, ne_semantics, raw_frame, encVars, input_list, cor_input, outVars>>

NextWrite ==
    \/ OpenFile
    \/ OpenRaises
    \/ WriteNodeDef
    \/ WriteNode
    \/ WriteEdgeDef
    \/ WriteEdge
    \/ CloseFile
    \/ WriteRaises

Next ==
    \/ H2oInit
    \/ ImportFile
    \/ DropColumns
    \/ InitLoopVars
    \/ EncodeName
    \/ SkipLevel
    \/ EncodeLevel
    \/ EncodeLevelRaises
    \/ DropOriginal
    \/ BuildInputList
    \/ ImputeShared
    \/ ImputeCopy
    \/ Correlate
    \/ MainRaises
    \/ Shutdown
    \/ NextWrite

Spec == Init /\ [][Next]_vars

SpecWrite == InitWrite /\ [][NextWrite]_vars

---------------------------------------------------------------------------
(* Definitions shared by the properties.                                   *)

Ended == pc \in {"done", "failed"}

Indices(kind) == {k \in DOMAIN out : out[k].kind = kind}

\* the columns of the file that are not in DROP_LIST
KeptColumns == {c \in SeqToSet(in_file) : c.name \notin SeqToSet(DROP_LIST)}

EnumColumns == {c \in KeptColumns : c.type = "enum"}

\* the names of the columns of the final numeric frame
FinalNumericNames ==
    {c.name : c \in {d \in KeptColumns : d.type \in {"real", "int"}}}
    \cup SeqToSet(new_name_list)

\* the levels for which an indicator of column n was created, in order
CreatedLevels(n) ==
    LET made == SelectSeq(indicator_of, LAMBDA e : e.name = n)
    IN  [k \in DOMAIN made |-> made[k].level]

\* the columns of encode_list whose inner loop has run to its end
LoopRan(k) ==
    \/ k < enc_i
    \/ k = enc_i /\ pc = "level" /\ level_j = Len(level_list)

\* the encoding loop has run to its end
LoopOver == enc_i >= 1 /\ enc_i > Len(encode_list)

\* s is t followed by REPLACE_CHARs only
IsPadded(s, t) ==
    /\ Len(s) >= Len(t)
    /\ SubSeq(s, 1, Len(t)) = t
    /\ \A k \in (Len(t) + 1)..Len(s) : s[k] = REPLACE_CHAR

\* the lines a complete file holds after the edge header
AllEdgeLines ==
    {EdgeLine(p[1], p[2], corr_frame_df.iat[p[1], p[2]]) :
        p \in Pending(corr_frame_df, corr_threshold, 0, 0)}

CompleteFile ==
    LET n == Shape0(corr_frame_df)
    IN  /\ Len(out) = n + 2 + Cardinality(AllEdgeLines)
        /\ out[1] = NodeDef
        /\ \A k \in 1..n : out[k + 1] = NodeLine(k - 1, corr_frame_df.columns[k])
        /\ out[n + 2] = EdgeDef
        /\ {out[k] : k \in (n + 3)..Len(out)} = AllEdgeLines

---------------------------------------------------------------------------
(* The properties.                                                         *)

\* C1: when write_gdf returns, every pair (i, j) with i > j whose entry has
\* an absolute value above corr_threshold, negative entries included, has
\* its edge line in the file; stated for the thresholds that are not
\* negative, where the absolute value is what tells the two readings apart.
C1_EdgesCompleteAbs ==
    (pc = "done" /\ corr_threshold >= 0) =>
        \A p \in LowerPairs(Shape0(corr_frame_df)) :
            LET ij_ == corr_frame_df.iat[p[1], p[2]]
            IN  (~IsNA(ij_) /\ Abs(ij_[1]) > corr_threshold)
                    => EdgeLine(p[1], p[2], ij_) \in SeqToSet(out)

\* C2: every edge line is for a pair i > j of the matrix, carries the entry
\* at (i, j), whose absolute value is above the threshold, and no pair is
\* written twice, in either direction.
C2_EdgesSound ==
    /\ \A k \in Indices("edge") :
        LET i == out[k].f[1]
            j == out[k].f[2]
            w == out[k].f[3]
        IN  /\ i > j
            /\ i \in 0..(Shape0(corr_frame_df) - 1)
            /\ j \in 0..(Shape1(corr_frame_df) - 1)
            /\ w = corr_frame_df.iat[i, j]
            /\ ~IsNA(w)
            /\ Abs(w[1]) > corr_threshold
    /\ \A k1, k2 \in Indices("edge") :
        k1 # k2 => {out[k1].f[1], out[k1].f[2]} # {out[k2].f[1], out[k2].f[2]}

\* write_gdf returned after writing two edges, one of negative weight
C2_Witness ==
    /\ pc = "done"
    /\ Cardinality(Indices("edge")) >= 2
    /\ \E k \in Indices("edge") : out[k].f[3][1] < 0

\* C3: the node lines carry the ids 0, 1, ..., n-1 in order, each id the
\* position of its column in the correlation matrix, and once the node
\* section is written there is exactly one line per column of the final
\* numeric frame: the kept real/int columns and the indicator columns.
C3_NodeSection ==
    /\ \A k \in Indices("node") :
        /\ k >= 2
        /\ out[k].f[1] = k - 2
        /\ out[k].f[2] = corr_frame_df.columns[k - 1]
    /\ (in_main /\ Indices("edgedef") # {}) =>
        /\ Cardinality(Indices("node")) = Cardinality(FinalNumericNames)
        /\ {out[k].f[2] : k \in Indices("node")} = FinalNumericNames
        /\ {out[k].f[1] : k \in Indices("node")}
               = 0..(Cardinality(FinalNumericNames) - 1)

C3_Witness ==
    /\ pc = "done"
    /\ in_main
    /\ Cardinality(Indices("node")) >= 4
    /\ Len(new_name_list) >= 3
    /\ \E c \in KeptColumns : c.type = "real"

\* C4: a column of at most two levels gets exactly one indicator, for its
\* first level in level order, a column of three or more levels gets one
\* indicator per level.
C4_IndicatorsPerColumn ==
    \A k \in DOMAIN encode_list :
        LoopRan(k) =>
            LET dom  == Col(in_file, encode_list[k]).domain
                made == CreatedLevels(encode_list[k])
            IN  IF Len(dom) <= 2
                THEN Len(made) = 1 /\ made[1] = dom[1]
                ELSE made = dom

\* a binary column and a column of three levels have both been encoded
C4_Witness ==
    /\ LoopOver
    /\ \E k \in DOMAIN encode_list : Len(Col(in_file, encode_list[k]).domain) = 2
    /\ \E k \in DOMAIN encode_list : Len(Col(in_file, encode_list[k]).domain) >= 3

\* C5: the names created so far are pairwise distinct across all encoded
\* columns, and each is its candidate name followed by as few replacement
\* characters as make it differ from every name created before it.
C5_NamesDistinct ==
    /\ \A k1, k2 \in DOMAIN new_name_list :
        k1 # k2 => new_name_list[k1] # new_name_list[k2]
    /\ \A k \in DOMAIN new_name_list :
        LET cand == CandidateName(indicator_of[k].name, indicator_of[k].level)
            made == new_name_list[k]
        IN  /\ IsPadded(made, cand)
            /\ \A m \in Len(cand)..(Len(made) - 1) :
                   \E e \in 1..(k - 1) : new_name_list[e] = SubSeq(made, 1, m)

\* two levels of one column and a level of another column had the same
\* candidate name
C5_Witness ==
    \E k1, k2, k3 \in DOMAIN new_name_list :
        /\ k1 < k2 /\ k2 < k3
        /\ indicator_of[k1].name # indicator_of[k3].name
        /\ CandidateName(indicator_of[k1].name, indicator_of[k1].level)
               = CandidateName(indicator_of[k2].name, indicator_of[k2].level)
        /\ CandidateName(indicator_of[k1].name, indicator_of[k1].level)
               = CandidateName(indicator_of[k3].name, indicator_of[k3].level)

C7_BackendShutDown ==
    (Ended /\ backend # "off") => backend = "shutdown"

\* C8: when the run ends the output path holds a complete file or nothing
\* written by this run; a file that was opened and holds no line is counted
\* as nothing.
C8_CompleteOrNothing ==
    Ended => (out_state = "untouched" \/ out = <<>> \/ CompleteFile)

\* C9: every row of an indicator column is 1 where the row's value of the
\* source column is the level and -1 elsewhere; stated for the backend that
\* compares the number a string parses to, the reading that favours it.
C9_IndicatorValues ==
    ne_semantics = "numeric" =>
        \A k \in DOMAIN new_name_list :
            LET made == Col(raw_frame, new_name_list[k]).data
                orig == Col(in_file, indicator_of[k].name).data
            IN  \A r \in DOMAIN orig :
                    made[r] = IF orig[r] = indicator_of[k].level THEN Num(1) ELSE Num(-1)

====
